---- MODULE Spec2Model ----
(***************************************************************************)
(* Model of demo1.py: the greedy word chunker (chunk_text) and the         *)
(* module-level ingestion/search script built around it.                   *)
(*                                                                         *)
(* Strings are sequences of one-character strings.  Two specifications:    *)
(*   SpecChunk : chunk_text run statement by statement on bounded inputs   *)
(*   Spec      : the script from index provisioning to the example search  *)
(***************************************************************************)
EXTENDS Integers, Sequences, FiniteSets, TLC

VARIABLES
    \* ---- chunk_text(text, chunk_size) frame ----
    text, chunk_size, words, wi, chunk, chunks, cpc,
    \* ---- module-level script ----
    pc, hf_token, store_indexes, files, fi, file_chunks, ci,
    calls, stdout, exit_status

chunkVars == <<text, chunk_size, words, wi, chunk, chunks, cpc>>
scriptVars == <<pc, hf_token, store_indexes, files, fi, file_chunks, ci,
                calls, stdout, exit_status>>
vars == <<text, chunk_size, words, wi, chunk, chunks, cpc,
          pc, hf_token, store_indexes, files, fi, file_chunks, ci,
          calls, stdout, exit_status>>

----------------------------------------------------------------------------
\* Bounds of the model
MaxLen == 5
MaxChunkSize == 3
MaxFiles == 2

\* Program constants
DefaultChunkSize == 512

\* Characters of the bounded inputs: two letters, the separator, and one
\* other whitespace character (str.strip and str.split() treat both as blank)
Alphabet == {"a", "b", " ", "\n"}
IsSpace(c) == c \in {" ", "\n"}

RECURSIVE SeqsUpTo(_, _)
SeqsUpTo(S, n) ==
    IF n = 0 THEN {<<>>}
    ELSE LET shorter == SeqsUpTo(S, n - 1)
         IN shorter \cup {Append(s, c) : s \in {t \in shorter : Len(t) = n - 1}, c \in S}

ScenarioText == <<"a", " ", "b", " ", "c">>
Texts == SeqsUpTo(Alphabet, MaxLen) \cup {ScenarioText}

----------------------------------------------------------------------------
\* Python string primitives used by chunk_text

\* text.split(' '): cut at every single space; empty pieces are kept, so a
\* text with n spaces gives n + 1 pieces
split_space(s) ==
    LET sp == {i \in 1..Len(s) : s[i] = " "}
        n == Cardinality(sp)
        cut(k) == IF k = 0 THEN 0
                  ELSE IF k = n + 1 THEN Len(s) + 1
                  ELSE CHOOSE p \in sp : Cardinality({q \in sp : q < p}) = k - 1
    IN [k \in 1..(n + 1) |-> SubSeq(s, cut(k - 1) + 1, cut(k) - 1)]

\* chunk.strip(): drop leading and trailing whitespace
strip(s) ==
    IF \A i \in 1..Len(s) : IsSpace(s[i]) THEN <<>>
    ELSE LET first == CHOOSE i \in 1..Len(s) :
                          ~IsSpace(s[i]) /\ \A j \in 1..(i - 1) : IsSpace(s[j])
             last == CHOOSE i \in 1..Len(s) :
                          ~IsSpace(s[i]) /\ \A j \in (i + 1)..Len(s) : IsSpace(s[j])
         IN SubSeq(s, first, last)

----------------------------------------------------------------------------
\* chunk_text, lines 49-64

\* variants of line 55 with a plausible slip: the buffer measured without
\* its trailing separator, and a strict comparison
Fits_IgnoreSeparator(buf, word, size) == Len(strip(buf)) + Len(word) <= size
Fits_Strict(buf, word, size) == Len(buf) + Len(word) < size

\* the condition of line 55
Fits(buf, word, size) == Len(buf) + Len(word) <= size

\* variant of lines 57-59 that restarts the buffer empty, losing the word
ChunkStep_DropWord(st, word, size) ==
    IF Len(st.chunk) + Len(word) <= size
    THEN [chunk |-> st.chunk \o word \o <<" ">>, chunks |-> st.chunks]
    ELSE [chunk |-> <<>>, chunks |-> Append(st.chunks, strip(st.chunk))]

\* one iteration of the for loop, lines 54-59
ChunkStep(st, word, size) ==
    IF Fits(st.chunk, word, size)
    THEN [chunk |-> st.chunk \o word \o <<" ">>, chunks |-> st.chunks]
    ELSE [chunk |-> word \o <<" ">>, chunks |-> Append(st.chunks, strip(st.chunk))]

\* lines 61-62
ChunkFinish(st) ==
    IF st.chunk # <<>> THEN Append(st.chunks, strip(st.chunk)) ELSE st.chunks

RECURSIVE ChunkFold(_, _, _, _)
ChunkFold(st, ws, i, size) ==
    IF i > Len(ws) THEN st ELSE ChunkFold(ChunkStep(st, ws[i], size), ws, i + 1, size)

\* the whole function, as called by process_text
chunk_text(t, size) ==
    ChunkFinish(ChunkFold([chunk |-> <<>>, chunks |-> <<>>], split_space(t), 1, size))

\* ---- chunk_text executed statement by statement ----
ChunkIdle ==
    /\ text = <<>> /\ chunk_size = DefaultChunkSize /\ words = <<>> /\ wi = 0
    /\ chunk = <<>> /\ chunks = <<>> /\ cpc = "idle"

ScriptIdle ==
    /\ pc = "idle" /\ hf_token = FALSE /\ store_indexes = {} /\ files = <<>>
    /\ fi = 0 /\ file_chunks = <<>> /\ ci = 0 /\ calls = <<>> /\ stdout = <<>>
    /\ exit_status = -1

InitChunk ==
    /\ text \in Texts
    /\ chunk_size \in 1..MaxChunkSize
    /\ words = <<>> /\ wi = 0 /\ chunk = <<>> /\ chunks = <<>>
    /\ cpc = "start"
    /\ ScriptIdle

\* lines 50-52
ChunkSplit ==
    /\ cpc = "start"
    /\ words' = split_space(text)
    /\ chunks' = <<>>
    /\ chunk' = <<>>
    /\ wi' = 0
    /\ cpc' = "loop"
    /\ UNCHANGED <<text, chunk_size>>
    /\ UNCHANGED scriptVars

\* lines 54-59, one word
ChunkLoop ==
    /\ cpc = "loop"
    /\ wi < Len(words)
    /\ LET st == ChunkStep([chunk |-> chunk, chunks |-> chunks], words[wi + 1], chunk_size)
       IN /\ chunk' = st.chunk
          /\ chunks' = st.chunks
    /\ wi' = wi + 1
    /\ UNCHANGED <<text, chunk_size, words, cpc>>
    /\ UNCHANGED scriptVars

\* lines 61-64
ChunkReturn ==
    /\ cpc = "loop"
    /\ wi = Len(words)
    /\ chunks' = ChunkFinish([chunk |-> chunk, chunks |-> chunks])
    /\ cpc' = "done"
    /\ UNCHANGED <<text, chunk_size, words, wi, chunk>>
    /\ UNCHANGED scriptVars

NextChunk == ChunkSplit \/ ChunkLoop \/ ChunkReturn

SpecChunk == InitChunk /\ [][NextChunk]_vars

----------------------------------------------------------------------------
\* The module-level script, lines 10-147

index_name == "idx"
user_query == <<"q">>

Rep(c, n) == [i \in 1..n |-> c]

\* File contents offered by the directory: an empty file, and a file whose
\* second word no longer fits the default chunk size (two chunks)
FileTexts ==
    { <<>>,
      Rep("a", DefaultChunkSize) \o <<" ", "b">> }

\* a directory entry: its suffix, whether open/read succeeds, and its text
FileKinds ==
    { [suffix |-> ".pdf", readable |-> TRUE, data |-> <<>>],
      [suffix |-> ".txt", readable |-> FALSE, data |-> <<>>] }
    \cup { [suffix |-> ".txt", readable |-> TRUE, data |-> t] : t \in FileTexts }

\* os.listdir results: up to MaxFiles entries with distinct names (the name
\* of an entry is its position in the listing)
Listings ==
    UNION { { [i \in 1..n |-> [name |-> i, suffix |-> k[i].suffix,
                                readable |-> k[i].readable, data |-> k[i].data]]
              : k \in [1..n -> FileKinds] } : n \in 0..MaxFiles }

\* results of get_embeddings as the script distinguishes them (line 118)
EmbedResults == {"vector", "empty"}

\* lines 10-13 have run; the store either has the index already or not
Init ==
    /\ pc = "provision"
    /\ hf_token \in BOOLEAN
    /\ store_indexes \in {{}, {index_name}}
    /\ files = <<>> /\ fi = 0 /\ file_chunks = <<>> /\ ci = 0
    /\ calls = <<>> /\ stdout = <<>>
    /\ exit_status = -1
    /\ ChunkIdle

\* where the for loop of line 102 goes after entry i
AfterFile(listing, i) == IF i >= Len(listing) THEN "search" ELSE "files"

\* variant of lines 31-33 that logs the failure and carries on
ProvisionIndex_NoExit ==
    /\ pc = "provision"
    /\ \/ /\ calls' = Append(calls, [op |-> "list_indexes", ok |-> FALSE, present |-> FALSE])
          /\ stdout' = Append(stdout, "Error creating Pinecone index")
          /\ pc' = "login"
          /\ UNCHANGED <<store_indexes, exit_status>>
       \/ /\ index_name \in store_indexes
          /\ calls' = Append(calls, [op |-> "list_indexes", ok |-> TRUE, present |-> TRUE])
          /\ pc' = "login"
          /\ UNCHANGED <<store_indexes, stdout, exit_status>>
       \/ /\ index_name \notin store_indexes
          /\ calls' = calls \o << [op |-> "list_indexes", ok |-> TRUE, present |-> FALSE],
                                  [op |-> "create_index", ok |-> FALSE] >>
          /\ stdout' = Append(stdout, "Error creating Pinecone index")
          /\ pc' = "login"
          /\ UNCHANGED <<store_indexes, exit_status>>
       \/ /\ index_name \notin store_indexes
          /\ calls' = calls \o << [op |-> "list_indexes", ok |-> TRUE, present |-> FALSE],
                                  [op |-> "create_index", ok |-> TRUE] >>
          /\ store_indexes' = store_indexes \cup {index_name}
          /\ stdout' = Append(stdout, "Created Pinecone index")
          /\ pc' = "login"
          /\ UNCHANGED exit_status
    /\ UNCHANGED <<hf_token, files, fi, file_chunks, ci>>
    /\ UNCHANGED chunkVars

\* lines 16-33: list the indexes, create the index when absent, exit(1) on
\* any failure
ProvisionIndex ==
    /\ pc = "provision"
    /\ \/ \* pc.list_indexes() raises
          /\ calls' = Append(calls, [op |-> "list_indexes", ok |-> FALSE, present |-> FALSE])
          /\ stdout' = Append(stdout, "Error creating Pinecone index")
          /\ pc' = "exit"
          /\ exit_status' = 1
          /\ UNCHANGED store_indexes
       \/ \* the index is listed: nothing to create
          /\ index_name \in store_indexes
          /\ calls' = Append(calls, [op |-> "list_indexes", ok |-> TRUE, present |-> TRUE])
          /\ pc' = "login"
          /\ UNCHANGED <<store_indexes, stdout, exit_status>>
       \/ \* the index is not listed and pc.create_index() raises
          /\ index_name \notin store_indexes
          /\ calls' = calls \o << [op |-> "list_indexes", ok |-> TRUE, present |-> FALSE],
                                  [op |-> "create_index", ok |-> FALSE] >>
          /\ stdout' = Append(stdout, "Error creating Pinecone index")
          /\ pc' = "exit"
          /\ exit_status' = 1
          /\ UNCHANGED store_indexes
       \/ \* the index is not listed and is created
          /\ index_name \notin store_indexes
          /\ calls' = calls \o << [op |-> "list_indexes", ok |-> TRUE, present |-> FALSE],
                                  [op |-> "create_index", ok |-> TRUE] >>
          /\ store_indexes' = store_indexes \cup {index_name}
          /\ stdout' = Append(stdout, "Created Pinecone index")
          /\ pc' = "login"
          /\ UNCHANGED exit_status
    /\ UNCHANGED <<hf_token, files, fi, file_chunks, ci>>
    /\ UNCHANGED chunkVars

\* lines 38-41: log in, or raise ValueError (uncaught: the interpreter
\* stops with status 1)
Login ==
    /\ pc = "login"
    /\ \/ /\ hf_token
          /\ calls' = Append(calls, [op |-> "login"])
          /\ pc' = "load_model"
          /\ UNCHANGED <<stdout, exit_status>>
       \/ /\ ~hf_token
          /\ stdout' = Append(stdout, "ValueError: HUGGINGFACE_API_TOKEN environment variable not set")
          /\ pc' = "raised"
          /\ exit_status' = 1
          /\ UNCHANGED calls
    /\ UNCHANGED <<hf_token, store_indexes, files, fi, file_chunks, ci>>
    /\ UNCHANGED chunkVars

\* lines 44-46
LoadModel ==
    /\ pc = "load_model"
    /\ calls' = Append(calls, [op |-> "load_model"])
    /\ pc' = "listdir"
    /\ UNCHANGED <<hf_token, store_indexes, files, fi, file_chunks, ci, stdout, exit_status>>
    /\ UNCHANGED chunkVars

\* variant of lines 100-113 without the outer handler: the listing failure
\* propagates and stops the interpreter
ListDir_Uncaught ==
    /\ pc = "listdir"
    /\ \/ /\ calls' = Append(calls, [op |-> "listdir", ok |-> FALSE])
          /\ stdout' = Append(stdout, "Traceback")
          /\ pc' = "raised"
          /\ exit_status' = 1
          /\ UNCHANGED <<files, fi>>
       \/ \E listing \in Listings :
             /\ calls' = Append(calls, [op |-> "listdir", ok |-> TRUE])
             /\ files' = listing
             /\ fi' = 0
             /\ pc' = AfterFile(listing, 0)
             /\ UNCHANGED <<stdout, exit_status>>
    /\ UNCHANGED <<hf_token, store_indexes, file_chunks, ci>>
    /\ UNCHANGED chunkVars

\* lines 143, 100-101, 112-113: os.listdir raises (caught, logged, the
\* function returns) or returns the entries
ListDir ==
    /\ pc = "listdir"
    /\ \/ /\ calls' = Append(calls, [op |-> "listdir", ok |-> FALSE])
          /\ stdout' = Append(stdout, "Error reading directory")
          /\ pc' = "search"
          /\ UNCHANGED <<files, fi>>
       \/ \E listing \in Listings :
             /\ calls' = Append(calls, [op |-> "listdir", ok |-> TRUE])
             /\ files' = listing
             /\ fi' = 0
             /\ pc' = AfterFile(listing, 0)
             /\ UNCHANGED stdout
    /\ UNCHANGED <<hf_token, store_indexes, file_chunks, ci, exit_status>>
    /\ UNCHANGED chunkVars

\* lines 102-111 for one entry, up to the call of chunk_text (line 91)
ProcessFile ==
    /\ pc = "files"
    /\ fi < Len(files)
    /\ LET f == files[fi + 1]
       IN \/ \* not a .txt entry: skipped silently
             /\ f.suffix # ".txt"
             /\ fi' = fi + 1
             /\ pc' = AfterFile(files, fi + 1)
             /\ UNCHANGED <<file_chunks, ci, calls, stdout>>
          \/ \* open/read raises: logged, next entry
             /\ f.suffix = ".txt"
             /\ ~f.readable
             /\ calls' = Append(calls, [op |-> "read", file |-> f.name, ok |-> FALSE])
             /\ stdout' = Append(stdout, "Error reading file")
             /\ fi' = fi + 1
             /\ pc' = AfterFile(files, fi + 1)
             /\ UNCHANGED <<file_chunks, ci>>
          \/ \* read, then process_text starts with chunk_text(data)
             /\ f.suffix = ".txt"
             /\ f.readable
             /\ calls' = Append(calls, [op |-> "read", file |-> f.name, ok |-> TRUE])
             /\ stdout' = Append(stdout, "Processing file")
             /\ LET cs == chunk_text(f.data, DefaultChunkSize)
                IN /\ file_chunks' = cs
                   /\ ci' = 0
                   /\ IF cs = <<>>
                      THEN fi' = fi + 1 /\ pc' = AfterFile(files, fi + 1)
                      ELSE fi' = fi /\ pc' = "chunks"
    /\ UNCHANGED <<hf_token, store_indexes, files, exit_status>>
    /\ UNCHANGED chunkVars

\* variant of lines 76-87 without the handler: a failed upsert propagates to
\* the handler of line 110 and the rest of the file is skipped
ProcessChunk_UpsertAborts ==
    /\ pc = "chunks"
    /\ ci < Len(file_chunks)
    /\ \E res \in EmbedResults, ok \in BOOLEAN :
        LET f == files[fi + 1]
            c == file_chunks[ci + 1]
            last == (ci + 1 = Len(file_chunks)) \/ ~ok
        IN /\ calls' = calls \o
                << [op |-> "embed", caller |-> "process_text", text |-> c, res |-> res],
                   [op |-> "upsert", id |-> <<f.name, ci + 1>>, values |-> res,
                    text |-> c, ok |-> ok] >>
           /\ stdout' = Append(stdout, IF ok THEN "Stored chunk ID"
                                             ELSE "Error reading file")
           /\ ci' = ci + 1
           /\ fi' = IF last THEN fi + 1 ELSE fi
           /\ pc' = IF last THEN AfterFile(files, fi + 1) ELSE "chunks"
    /\ UNCHANGED <<hf_token, store_indexes, files, file_chunks, exit_status>>
    /\ UNCHANGED chunkVars

\* lines 92-94 for one chunk, with store_in_pinecone (lines 76-87): embed the
\* chunk, upsert the vector under "<file>-chunk-<i + 1>", log either outcome
ProcessChunk ==
    /\ pc = "chunks"
    /\ ci < Len(file_chunks)
    /\ \E res \in EmbedResults, ok \in BOOLEAN :
        LET f == files[fi + 1]
            c == file_chunks[ci + 1]
            last == ci + 1 = Len(file_chunks)
        IN /\ calls' = calls \o
                << [op |-> "embed", caller |-> "process_text", text |-> c, res |-> res],
                   [op |-> "upsert", id |-> <<f.name, ci + 1>>, values |-> res,
                    text |-> c, ok |-> ok] >>
           /\ stdout' = Append(stdout, IF ok THEN "Stored chunk ID"
                                             ELSE "Error storing data in Pinecone")
           /\ ci' = ci + 1
           /\ fi' = IF last THEN fi + 1 ELSE fi
           /\ pc' = IF last THEN AfterFile(files, fi + 1) ELSE "chunks"
    /\ UNCHANGED <<hf_token, store_indexes, files, file_chunks, exit_status>>
    /\ UNCHANGED chunkVars

QueryEmbed(res) ==
    [op |-> "embed", caller |-> "search_in_pinecone", text |-> user_query, res |-> res]

\* variant of lines 116-139 without the emptiness check of lines 118-120
SearchInPinecone_NoCheck ==
    /\ pc = "search"
    /\ \E res \in EmbedResults, out \in {"error", "matches", "none"} :
          /\ calls' = calls \o << QueryEmbed(res),
                                  [op |-> "query", vector |-> res, ok |-> out # "error"] >>
          /\ stdout' = Append(stdout,
                 CASE out = "error" -> "Error searching Pinecone"
                   [] out = "matches" -> "Search Results"
                   [] out = "none" -> "No similar results found")
    /\ pc' = "done"
    /\ exit_status' = 0
    /\ UNCHANGED <<hf_token, store_indexes, files, fi, file_chunks, ci>>
    /\ UNCHANGED chunkVars

\* lines 147, 116-139: embed the query; an empty result is reported and the
\* function returns; otherwise one index.query, whose failure is logged
SearchInPinecone ==
    /\ pc = "search"
    /\ \/ /\ calls' = Append(calls, QueryEmbed("empty"))
          /\ stdout' = Append(stdout, "Failed to get embeddings for the query.")
       \/ \E out \in {"error", "matches", "none"} :
             /\ calls' = calls \o << QueryEmbed("vector"),
                                     [op |-> "query", vector |-> "vector", ok |-> out # "error"] >>
             /\ stdout' = Append(stdout,
                    CASE out = "error" -> "Error searching Pinecone"
                      [] out = "matches" -> "Search Results"
                      [] out = "none" -> "No similar results found")
    /\ pc' = "done"
    /\ exit_status' = 0
    /\ UNCHANGED <<hf_token, store_indexes, files, fi, file_chunks, ci>>
    /\ UNCHANGED chunkVars

Next ==
    \/ ProvisionIndex
    \/ Login
    \/ LoadModel
    \/ ListDir
    \/ ProcessFile
    \/ ProcessChunk
    \/ SearchInPinecone

Spec == Init /\ [][Next]_vars

----------------------------------------------------------------------------
\* Properties of chunk_text (checked under SpecChunk)

\* ' '.join(chunks)
RECURSIVE JoinFrom(_, _)
JoinFrom(cs, i) ==
    IF i > Len(cs) THEN <<>>
    ELSE IF i = Len(cs) THEN cs[i]
    ELSE cs[i] \o <<" ">> \o JoinFrom(cs, i + 1)

join_space(cs) == JoinFrom(cs, 1)

\* s.split(): cut at runs of whitespace, no empty pieces
RECURSIVE WsFrom(_, _, _, _)
WsFrom(s, i, cur, acc) ==
    IF i > Len(s) THEN (IF cur = <<>> THEN acc ELSE Append(acc, cur))
    ELSE IF IsSpace(s[i])
         THEN WsFrom(s, i + 1, <<>>, IF cur = <<>> THEN acc ELSE Append(acc, cur))
         ELSE WsFrom(s, i + 1, Append(cur, s[i]), acc)

split_ws(s) == WsFrom(s, 1, <<>>, <<>>)

Returned == cpc = "done"

\* a chunk that is one word of the text (no separator inside), longer than the limit
LoneOversizedWord(c) ==
    /\ Len(split_space(c)) = 1
    /\ \E k \in 1..Len(words) : Len(words[k]) > chunk_size /\ c = strip(words[k])

C2_RejoinPreservesWords ==
    Returned => split_ws(join_space(chunks)) = split_ws(text)

\* C2 witness: several chunks from a text of several words with a run of blanks
C2_Witness ==
    /\ Returned
    /\ Len(chunks) >= 2
    /\ Len(split_ws(text)) >= 2
    /\ \E i \in 1..(Len(text) - 1) : IsSpace(text[i]) /\ IsSpace(text[i + 1])

\* C3 (as claimed): chunk_text of the empty string returns no chunks
C3_EmptyTextNoChunks ==
    (Returned /\ text = <<>>) => chunks = <<>>

\* C4 (as claimed): "a b c" with limit 3 is chunked into "a", "b", "c"
C4_ScenarioAsClaimed ==
    (Returned /\ text = ScenarioText /\ chunk_size = 3)
        => chunks = << <<"a">>, <<"b">>, <<"c">> >>

\* one loop iteration closes the chunk exactly when the buffer (every word in
\* it followed by one space) plus the next word is longer than the limit, and
\* the closed chunk is followed by a buffer that starts with that word
C4_ClosesStep ==
    (cpc = "loop" /\ wi' = wi + 1) =>
        LET word == words[wi + 1]
            over == Len(chunk) + Len(word) > chunk_size
        IN /\ over <=> (Len(chunks') = Len(chunks) + 1)
           /\ over => chunk' = word \o <<" ">> /\ chunks' = Append(chunks, strip(chunk))
           /\ ~over => chunk' = chunk \o word \o <<" ">> /\ chunks' = chunks

C4_ScenarioResult ==
    (Returned /\ text = ScenarioText /\ chunk_size = 3)
        => chunks = << <<"a", " ", "b">>, <<"c">> >>

\* C4 (amended): the chunk closes exactly when len(buffer) + len(word), the
\* buffer counted with its trailing space, exceeds the limit; "a b c" with
\* limit 3 gives "a b", "c"
C4_ClosesWhenOverLimit ==
    [][C4_ClosesStep]_vars /\ [](C4_ScenarioResult)

\* C4 witness: the scenario has run to its result
C4_Witness ==
    /\ Returned /\ text = ScenarioText /\ chunk_size = 3
    /\ chunks = << <<"a", " ", "b">>, <<"c">> >>

\* C10 (as claimed): a text with a non-empty word never yields an empty chunk
C10_NoEmptyChunk ==
    (Returned /\ \E k \in 1..Len(words) : words[k] # <<>>)
        => \A k \in 1..Len(chunks) : chunks[k] # <<>>

----------------------------------------------------------------------------
\* Properties of the script (checked under Spec)

CallsOf(ops) == {i \in 1..Len(calls) : calls[i].op \in ops}

WorkOps == {"read", "embed", "upsert", "query"}

ListFailed == \E i \in CallsOf({"list_indexes"}) : ~calls[i].ok
CreateFailed == \E i \in CallsOf({"create_index"}) : ~calls[i].ok

\* call j completes the provisioning check: the index was listed, or created
ProvisionedAt(j) ==
    \/ calls[j].op = "list_indexes" /\ calls[j].ok /\ calls[j].present
    \/ calls[j].op = "create_index" /\ calls[j].ok

\* C5: provisioning completes before any read, embedding, upsert or query;
\* create_index is called only right after a listing without the index; a
\* failed listing or creation ends the process with status 1 and no read,
\* embedding, upsert or query at all
C5_ProvisioningFirst ==
    /\ \A i \in CallsOf({"create_index"}) :
          /\ i > 1
          /\ calls[i - 1].op = "list_indexes"
          /\ calls[i - 1].ok
          /\ ~calls[i - 1].present
    /\ \A i \in CallsOf(WorkOps) : \E j \in 1..(i - 1) : ProvisionedAt(j)
    /\ (ListFailed \/ CreateFailed) =>
          /\ pc = "exit"
          /\ exit_status = 1
          /\ CallsOf(WorkOps \cup {"login", "load_model", "listdir"}) = {}

\* C5 witness: the index was absent and created, and the run went on to
\* upsert and query
C5_Witness ==
    /\ pc = "done"
    /\ \E i \in CallsOf({"create_index"}) : calls[i].ok
    /\ CallsOf({"upsert"}) # {}
    /\ CallsOf({"query"}) # {}

\* C6 (as claimed): with the token missing, the vector store is never called
\* and no file is processed
C6_NoStoreCallWithoutToken ==
    ~hf_token => CallsOf({"list_indexes", "create_index"} \cup WorkOps) = {}

ListDirFailed == \E i \in CallsOf({"listdir"}) : ~calls[i].ok

\* C7 (as claimed): after a failed directory listing nothing is read,
\* embedded, upserted or queried
C7_ListingFailureStopsAll ==
    \A i \in CallsOf({"listdir"}) :
        ~calls[i].ok => \A j \in CallsOf(WorkOps) : j < i

\* C7 (amended): a failed directory listing is caught and logged and ends the
\* ingestion only: no file is read and nothing is embedded or upserted for a
\* file, the process keeps running, and the example search is still made
C7_ListingFailureSkipsIngestion ==
    ListDirFailed =>
        /\ \E k \in 1..Len(stdout) : stdout[k] = "Error reading directory"
        /\ CallsOf({"read", "upsert"}) = {}
        /\ \A j \in CallsOf({"embed"}) : calls[j].caller = "search_in_pinecone"
        /\ pc \in {"search", "done"}
        /\ pc = "done" =>
              /\ exit_status = 0
              /\ \E j \in CallsOf({"embed"}) :
                    /\ calls[j].caller = "search_in_pinecone"
                    /\ calls[j - 1].op = "listdir"

\* C7 witness: the listing failed and the search went as far as the store query
C7_Witness ==
    /\ ListDirFailed
    /\ pc = "done"
    /\ CallsOf({"query"}) # {}

IsRead(e) == e.op = "read"
IsUpsert(e) == e.op = "upsert"

\* the reads the listing calls for: one per .txt entry, in listing order
RECURSIVE ExpectedReads(_, _)
ExpectedReads(listing, i) ==
    IF i > Len(listing) THEN <<>>
    ELSE (IF listing[i].suffix = ".txt"
          THEN << [file |-> listing[i].name, ok |-> listing[i].readable] >>
          ELSE <<>>) \o ExpectedReads(listing, i + 1)

\* the upserts the listing calls for: for each readable .txt entry, in listing
\* order, one per chunk of its text, in chunk order, ids numbered from 1
RECURSIVE ExpectedUpserts(_, _)
ExpectedUpserts(listing, i) ==
    IF i > Len(listing) THEN <<>>
    ELSE (IF listing[i].suffix = ".txt" /\ listing[i].readable
          THEN LET cs == chunk_text(listing[i].data, DefaultChunkSize)
               IN [k \in 1..Len(cs) |-> [id |-> <<listing[i].name, k>>, text |-> cs[k]]]
          ELSE <<>>) \o ExpectedUpserts(listing, i + 1)

IngestionOver == pc \in {"search", "done"} /\ ~ListDirFailed

C9_EmptyEmbeddingHandling ==
    /\ \A i \in CallsOf({"embed"}) :
          (calls[i].caller = "search_in_pinecone" /\ calls[i].res = "empty") =>
              /\ CallsOf({"query"}) = {}
              /\ i = Len(calls)
              /\ stdout[Len(stdout)] = "Failed to get embeddings for the query."
    /\ \A i \in CallsOf({"embed"}) :
          (calls[i].caller = "process_text" /\ calls[i].res = "empty") =>
              /\ i < Len(calls)
              /\ calls[i + 1].op = "upsert"
              /\ calls[i + 1].values = "empty"
              /\ calls[i + 1].text = calls[i].text
              /\ calls[i + 1].id[1] = files[calls[i + 1].id[1]].name

\* C9 witness: both an ingestion embedding and the query embedding came back empty
C9_Witness ==
    /\ pc = "done"
    /\ \E i \in CallsOf({"embed"}) : calls[i].caller = "process_text" /\ calls[i].res = "empty"
    /\ \E i \in CallsOf({"embed"}) : calls[i].caller = "search_in_pinecone" /\ calls[i].res = "empty"

====
